---------------------------- MODULE Spec2Model ----------------------------
(***************************************************************************)
(* A model of pycinga: Range (range.py), Status (status.py), PerfData      *)
(* (perf_data.py), Response (response.py) and the response collation of    *)
(* Plugin (plugin.py).                                                     *)
(*                                                                         *)
(* A Python str is a sequence of one-character strings, so that strip,     *)
(* split, float(), str() and "+" are computed character by character.      *)
(* Python's None, where a str may stand, is the value None below.          *)
(***************************************************************************)
EXTENDS Integers, Sequences, FiniteSets, TLC

VARIABLES
    arg,        \* the str handed to Range(...)
    rng,        \* what Range(arg) gave: a Range, an exception, or not called yet
    val,        \* the number last handed to rng.in_range
    inres,      \* what rng.in_range(val) returned
    text,       \* what str(rng) returned
    rng2,       \* what Range(str(rng)) gave
    sa,         \* a Status
    sb,         \* another Status
    cmp,        \* what sa < sb, sa == sb, sa != sb and sa > sb returned
    responses,  \* Plugin.responses, the list add_response appends to
    added,      \* every response handed to add_response, in the order of the calls
    plugins,    \* how many Plugin instances have been created
    addedTo,    \* for every response of added, the instance it was added to
    lastSelf,   \* the instance the last call was made on
    calls,      \* the calls made on the plugin so far, each with the default
                \* it was given and what it returned or raised
    lastDefault, \* the default argument of the last all_responses call
    outcome,    \* what the last call on the plugin returned or raised
    pd,         \* a PerfData object, once one has been constructed
    pdlast,     \* the last operation on pd and the exception it raised, if any
    pdtext,     \* what str(pd) returned, if taken since pd last changed
    pdarg,      \* the uom, warn and crit handed to the last operation on pd
    qlabel,     \* a PerfData label
    quoted,     \* what _quote_if_needed(qlabel) returned
    rsp,       \* a Response object
    resplast,   \* the last operation on rsp or on one of its PerfData, and
                \* the exception it raised, if any
    resptext,   \* what str(rsp) returned, if taken since rsp last changed
    setlog,     \* the PerfData objects that set_perf_data put into
                \* rsp.perf_data, in the order of the calls
    options,    \* Plugin.options: the warning and the critical Range, or None
    classified  \* the value last handed to response_for_value and the
                \* Response it returned

rangeVars == <<arg, rng, val, inres, text, rng2>>

statusVars == <<sa, sb, cmp>>

pluginVars == <<responses, added, lastDefault, outcome>>

instanceVars == <<plugins, addedTo, lastSelf>>

historyVars == <<calls>>

perfVars == <<pd, pdlast, pdtext, pdarg>>

quoteVars == <<qlabel, quoted>>

responseVars == <<rsp, resplast, resptext, setlog>>

classifyVars == <<options, classified>>

vars == <<arg, rng, val, inres, text, rng2, sa, sb, cmp, responses, added,
         plugins, addedTo, lastSelf, calls, lastDefault, outcome, pd, pdlast, pdtext, pdarg, qlabel, quoted, rsp,
         resplast, resptext, setlog, options, classified>>

\* What the operations on one class leave alone: the state of the others.
exceptRange == <<statusVars, pluginVars, perfVars, quoteVars, responseVars,
                  classifyVars, instanceVars, historyVars>>

exceptStatus == <<rangeVars, pluginVars, perfVars, quoteVars, responseVars,
                  classifyVars, instanceVars, historyVars>>

exceptPlugin == <<rangeVars, statusVars, perfVars, quoteVars, responseVars,
                  classifyVars, instanceVars, historyVars>>

exceptPerf == <<rangeVars, statusVars, pluginVars, quoteVars, responseVars,
                  classifyVars, instanceVars, historyVars>>

exceptQuote == <<rangeVars, statusVars, pluginVars, perfVars, responseVars,
                  classifyVars, instanceVars, historyVars>>

exceptResponse == <<rangeVars, statusVars, pluginVars, perfVars, quoteVars,
                  classifyVars, instanceVars, historyVars>>

exceptClassify == <<rangeVars, statusVars, pluginVars, perfVars, quoteVars,
                    responseVars, instanceVars, historyVars>>

\* What a call on one of several plugins leaves alone.
exceptInstances == <<rangeVars, statusVars, perfVars, quoteVars, responseVars,
                     classifyVars, historyVars>>

\* What a recorded call on the plugin leaves alone.
exceptHistory == <<rangeVars, statusVars, perfVars, quoteVars, responseVars,
                   classifyVars, instanceVars>>

-----------------------------------------------------------------------------
(* Bounds of the model.                                                    *)

\* Longest str, in characters, that the exhaustive Range inputs are drawn from.
MaxLen == 4

\* in_range is tried on every integer from -1 to MaxVal (and on the values
\* the tests use).
MaxVal == 2

\* Exit codes of the Status values compared run from -1 to MaxCode.
MaxCode == 2

\* Most responses added to a plugin.
MaxResponses == 3

\* Most Plugin instances created.
MaxPlugins == 2

\* Most calls, add_response and all_responses together, made on the plugin
\* whose calls are recorded.
MaxCalls == 6

\* Longest label, in characters, that _quote_if_needed is tried on.
MaxLabel == 4

\* Most set_perf_data calls that a Response takes.
MaxSets == 3

\* Longest uom, in characters, of the exhaustive uom inputs.
MaxUom == 2

-----------------------------------------------------------------------------
(* Python values.                                                          *)

\* None, in a place where a str may stand: no str holds this element.
None == <<"None">>

\* The characters the exhaustive inputs are built from.
Chars == {"0", "1", ".", "-", ":", "@", "~", " "}

Digits == {"0", "1", "2", "3", "4", "5", "6", "7", "8", "9"}

\* str.strip() and float() drop these at both ends.
Whitespace == {" ", "\t", "\n", "\r"}

DigitVal(c) ==
    CASE c = "0" -> 0 [] c = "1" -> 1 [] c = "2" -> 2 [] c = "3" -> 3
      [] c = "4" -> 4 [] c = "5" -> 5 [] c = "6" -> 6 [] c = "7" -> 7
      [] c = "8" -> 8 [] c = "9" -> 9

DigitChar(d) == <<"0", "1", "2", "3", "4", "5", "6", "7", "8", "9">>[d + 1]

RECURSIVE Pow10(_)
Pow10(n) == IF n = 0 THEN 1 ELSE 10 * Pow10(n - 1)

RECURSIVE LStrip(_)
LStrip(s) ==
    IF s # <<>> /\ Head(s) \in Whitespace THEN LStrip(Tail(s)) ELSE s

RECURSIVE RStrip(_)
RStrip(s) ==
    IF s # <<>> /\ s[Len(s)] \in Whitespace
    THEN RStrip(SubSeq(s, 1, Len(s) - 1))
    ELSE s

\* str.strip()
Strip(s) == RStrip(LStrip(s))

\* str.split(sep) for a one-character sep: always at least one part.
RECURSIVE Split(_, _)
Split(s, sep) ==
    IF \E i \in 1..Len(s) : s[i] = sep
    THEN LET i == CHOOSE k \in 1..Len(s) :
                      s[k] = sep /\ \A j \in 1..(k - 1) : s[j] # sep
         IN  <<SubSeq(s, 1, i - 1)>> \o Split(SubSeq(s, i + 1, Len(s)), sep)
    ELSE <<s>>

-----------------------------------------------------------------------------
(* Python floats.  A finite float is m * 10^(-e), kept normalised (e = 0   *)
(* or m not a multiple of 10), so a float is integral iff e = 0 and two    *)
(* finite floats are equal iff their records are.  -0.0 is kept as 0.0:    *)
(* the code only compares it (-0.0 == 0.0) and prints int(-0.0).           *)

Fin(m, e) == [k |-> "fin", m |-> m, e |-> e]
NegInf == [k |-> "-inf", m |-> 0, e |-> 0]
PosInf == [k |-> "inf", m |-> 0, e |-> 0]
NaN == [k |-> "nan", m |-> 0, e |-> 0]

RECURSIVE Normalize(_, _)
Normalize(m, e) ==
    IF e > 0 /\ m % 10 = 0 THEN Normalize(m \div 10, e - 1) ELSE Fin(m, e)

\* a < b on floats: every comparison with nan is False.
FloatLt(a, b) ==
    CASE a.k = "nan" \/ b.k = "nan" -> FALSE
      [] a.k # "nan" /\ b.k # "nan" /\ a.k = "-inf" -> b.k # "-inf"
      [] a.k = "inf" /\ b.k # "nan" -> FALSE
      [] a.k = "fin" /\ b.k = "-inf" -> FALSE
      [] a.k = "fin" /\ b.k = "inf" -> TRUE
      [] a.k = "fin" /\ b.k = "fin" -> a.m * Pow10(b.e) < b.m * Pow10(a.e)

\* ">" taken for ">=".
FloatGt_OrEqual(a, b) == FloatLt(b, a) \/ (a.k # "nan" /\ b.k # "nan" /\ a = b)

FloatGt(a, b) == FloatLt(b, a)

\* a == b on floats
FloatEq(a, b) == a.k # "nan" /\ b.k # "nan" /\ a = b

\* a != b on floats
FloatNe(a, b) == ~FloatEq(a, b)

\* a <= b and a >= b on floats
FloatLe(a, b) == FloatLt(a, b) \/ FloatEq(a, b)

FloatGe(a, b) == FloatGt(a, b) \/ FloatEq(a, b)

\* float.is_integer()
is_integer(x) == x.k = "fin" /\ x.e = 0

RECURSIVE DigitsValue(_)
DigitsValue(s) ==
    IF s = <<>> THEN 0
    ELSE 10 * DigitsValue(SubSeq(s, 1, Len(s) - 1)) + DigitVal(s[Len(s)])

\* The decimal literals float() takes: digits with at most one ".", at least
\* one digit.  (Exponents and "_" need characters no input here holds.)
IsDecimal(u) ==
    /\ \A i \in 1..Len(u) : u[i] \in Digits \cup {"."}
    /\ Cardinality({i \in 1..Len(u) : u[i] = "."}) <= 1
    /\ \E i \in 1..Len(u) : u[i] \in Digits

DecimalValue(u) ==
    LET dots == {i \in 1..Len(u) : u[i] = "."}
        dot == IF dots = {} THEN Len(u) + 1 ELSE CHOOSE i \in dots : TRUE
        ds == SelectSeq(u, LAMBDA c : c # ".")
    IN  Normalize(DigitsValue(ds), Len(u) - dot + (IF dots = {} THEN 1 ELSE 0))

\* float(s): [ok |-> TRUE, val |-> the float], or ok FALSE for ValueError.
PyFloat(s) ==
    LET t == Strip(s)
        signed == t # <<>> /\ Head(t) \in {"+", "-"}
        neg == t # <<>> /\ Head(t) = "-"
        u == IF signed THEN Tail(t) ELSE t
    IN  IF u = <<"n", "a", "n">> THEN [ok |-> TRUE, val |-> NaN]
        ELSE IF u = <<"i", "n", "f">>
                \/ u = <<"i", "n", "f", "i", "n", "i", "t", "y">>
        THEN [ok |-> TRUE, val |-> IF neg THEN NegInf ELSE PosInf]
        ELSE IF IsDecimal(u)
        THEN LET x == DecimalValue(u)
             IN  [ok |-> TRUE,
                  val |-> IF neg THEN Fin(0 - x.m, x.e) ELSE x]
        ELSE [ok |-> FALSE, val |-> NaN]

\* str(n) for an int n >= 0
RECURSIVE NatStr(_)
NatStr(n) ==
    IF n < 10 THEN <<DigitChar(n)>>
    ELSE NatStr(n \div 10) \o <<DigitChar(n % 10)>>

\* str(n) for an int
IntStr(n) == IF n < 0 THEN <<"-">> \o NatStr(0 - n) ELSE NatStr(n)

\* n as exactly w digits, zeros in front
RECURSIVE Padded(_, _)
Padded(n, w) ==
    IF w = 0 THEN <<>> ELSE Padded(n \div 10, w - 1) \o <<DigitChar(n % 10)>>

\* str(x) for a float x that is not integral (1e-4 <= |x| < 1e16 when finite,
\* where repr uses no exponent).
FloatStr(x) ==
    CASE x.k = "nan" -> <<"n", "a", "n">>
      [] x.k = "inf" -> <<"i", "n", "f">>
      [] x.k = "-inf" -> <<"-", "i", "n", "f">>
      [] x.k = "fin" ->
            LET a == IF x.m < 0 THEN 0 - x.m ELSE x.m
                p == Pow10(x.e)
            IN  (IF x.m < 0 THEN <<"-">> ELSE <<>>)
                    \o NatStr(a \div p) \o <<".">> \o Padded(a % p, x.e)

\* str(int(x)) whatever x is: the is_integer() test left out.
BoundStr_AlwaysInt(x) ==
    IF x.k = "fin"
    THEN IF x.m < 0 THEN <<"-">> \o NatStr((0 - x.m) \div Pow10(x.e))
         ELSE NatStr(x.m \div Pow10(x.e))
    ELSE FloatStr(x)

\* str(x) on the float itself: the int() left out, so 10.0 prints "10.0".
BoundStr_NeverInt(x) ==
    IF is_integer(x) THEN IntStr(x.m) \o <<".", "0">> ELSE FloatStr(x)

\* value = int(x) if x.is_integer() else x;  str(value)
BoundStr(x) == IF is_integer(x) THEN IntStr(x.m) ELSE FloatStr(x)

-----------------------------------------------------------------------------
(* range.py: class Range.                                                  *)

\* No Range(...) call has been made yet.  id tells Range objects apart:
\* 0 is the object a call has just made, another number one the caller held
\* before.
NoRange ==
    [st |-> "none", inclusive |-> FALSE, start |-> NaN, end |-> NaN, id |-> 0]

\* Range.__init__ raised RangeValueError; why names the raise statement.
RangeValueError(why) ==
    [st |-> why, inclusive |-> FALSE, start |-> NaN, end |-> NaN, id |-> 0]

\* class RangeValueError(ValueError): the exceptions that are ValueErrors
ValueErrors == {"ValueError", "RangeValueError"}

RangeErrors == {"empty", "parts", "start", "end", "order"}

\* Range.__init__(value): the Range built, or the RangeValueError raised.
Range(value) ==
    LET v0 == Strip(value)
    IN  IF Len(v0) = 0 THEN RangeValueError("empty")
        ELSE
        LET inclusive == Head(v0) = "@"
            v1 == IF inclusive THEN Tail(v0) ELSE v0
            split == Split(v1, ":")
        IN  IF Len(split) > 2 THEN RangeValueError("parts")
            ELSE
            LET parts == IF Len(split) = 1 THEN <<<<"0">>>> \o split ELSE split
                s == IF parts[1] = <<"~">>
                     THEN [ok |-> TRUE, val |-> NegInf]
                     ELSE PyFloat(parts[1])
                e == IF parts[2] = <<>> \/ parts[2] = <<"~">>
                     THEN [ok |-> TRUE, val |-> PosInf]
                     ELSE PyFloat(parts[2])
            IN  IF ~s.ok THEN RangeValueError("start")
                ELSE IF ~e.ok THEN RangeValueError("end")
                ELSE IF FloatGt(s.val, e.val) THEN RangeValueError("order")
                ELSE [st |-> "ok", inclusive |-> inclusive,
                      start |-> s.val, end |-> e.val, id |-> 0]

\* Range.in_range(value)
in_range(self, value) ==
    IF self.inclusive
    THEN FloatGe(value, self.start) /\ FloatLe(value, self.end)
    ELSE FloatLt(value, self.start) \/ FloatGt(value, self.end)

\* Range.__str__()
Range__str__(self) ==
    LET result == IF self.inclusive THEN <<"@">> ELSE <<>>
        withStart ==
            IF FloatEq(self.start, NegInf) THEN result \o <<"~", ":">>
            ELSE IF FloatNe(self.start, Fin(0, 0))
            THEN result \o BoundStr(self.start) \o <<":">>
            ELSE result
    IN  IF FloatEq(self.end, PosInf) THEN withStart \o <<"~">>
        ELSE withStart \o BoundStr(self.end)

-----------------------------------------------------------------------------
(* status.py: class Status.  id tells one Status object from another:      *)
(* "is" compares it, == compares exit codes.                               *)

\* Status.__init__(name, exit_code) for a str name and an int exit_code; id
\* is the object made.
Status(id, name, exit_code) ==
    [id |-> id, name |-> name, exit_code |-> exit_code]

Status__lt__(self, other) == self.exit_code < other.exit_code

\* == that looks at the name as well.
Status__eq__WithName(self, other) ==
    self.exit_code = other.exit_code /\ self.name = other.name

Status__eq__(self, other) == self.exit_code = other.exit_code

Status__ne__(self, other) == self.exit_code # other.exit_code

Status__gt__(self, other) == self.exit_code > other.exit_code

\* a is b
Is(a, b) == a.id = b.id

\* The Status constants of plugin.py.
OK == Status(0, <<"O", "K">>, 0)
WARNING == Status(1, <<"W", "A", "R", "N">>, 1)
CRITICAL == Status(2, <<"C", "R", "I", "T">>, 2)
UNKNOWN == Status(3, <<"U", "N", "K", "N", "O", "W", "N">>, 3)

\* No Status: the status of a result that is not a Response.
NoStatus == Status(-1, <<>>, 0)

-----------------------------------------------------------------------------
(* response.py and plugin.py: Response, Plugin.add_response and            *)
(* Plugin.all_responses.                                                   *)

\* Response.__init__(status, message)
Response(status, message) ==
    [status |-> status, message |-> message, perf_data |-> <<>>]

\* What "a + b" raises when a or b is None.
TypeError == <<"TypeError">>

\* a + b on strs; None + str and str + None raise TypeError, which every
\* later "+" of the statement passes on.
StrAdd(a, b) ==
    IF a = TypeError \/ b = TypeError \/ a = None \/ b = None
    THEN TypeError
    ELSE a \o b

\* The same step with reverse=True left out: ascending.
RECURSIVE InsertDesc_NoReverse(_, _)
InsertDesc_NoReverse(sorted, x) ==
    IF sorted = <<>> THEN <<x>>
    ELSE IF Status__lt__(x.status, Head(sorted).status)
    THEN <<x>> \o sorted
    ELSE <<Head(sorted)>> \o InsertDesc_NoReverse(Tail(sorted), x)

\* The same step of a sort that is not stable: x goes in front of the
\* elements it ties with.
RECURSIVE InsertDesc_BeforeTies(_, _)
InsertDesc_BeforeTies(sorted, x) ==
    IF sorted = <<>> THEN <<x>>
    ELSE IF ~Status__lt__(x.status, Head(sorted).status)
    THEN <<x>> \o sorted
    ELSE <<Head(sorted)>> \o InsertDesc_BeforeTies(Tail(sorted), x)

\* One step of the stable descending sort: x goes in front of the first
\* element whose key is lower than its own, behind every element it ties with.
RECURSIVE InsertDesc(_, _)
InsertDesc(sorted, x) ==
    IF sorted = <<>> THEN <<x>>
    ELSE IF Status__lt__(Head(sorted).status, x.status)
    THEN <<x>> \o sorted
    ELSE <<Head(sorted)>> \o InsertDesc(Tail(sorted), x)

\* self.responses.sort(reverse=True, key=lambda k: k.status): list.sort is
\* stable, with reverse=True too, and compares keys by < alone.
RECURSIVE SortDesc(_)
SortDesc(rs) ==
    IF rs = <<>> THEN <<>>
    ELSE InsertDesc(SortDesc(SubSeq(rs, 1, Len(rs) - 1)), rs[Len(rs)])

\* The loop of all_responses over self.responses[1:].
RECURSIVE Collate(_, _, _)
Collate(rest, laststatus, message) ==
    IF rest = <<>> THEN message
    ELSE LET resp == Head(rest)
         IN  IF ~Is(laststatus, resp.status)
             THEN Collate(Tail(rest), resp.status,
                          StrAdd(message,
                                 StrAdd(StrAdd(StrAdd(<<" ">>, resp.status.name),
                                               <<":", " ">>),
                                        resp.message)))
             ELSE Collate(Tail(rest), laststatus,
                          StrAdd(message, StrAdd(<<",", " ">>, resp.message)))

\* What a call left behind: kind is "none" (nothing returned: no call yet, or
\* add_response), "returned" (a Response) or "raised" (TypeError).
NoResult ==
    [kind |-> "none", status |-> NoStatus, message |-> None,
     perf_data |-> <<>>]

Returned(response) ==
    [kind |-> "returned", status |-> response.status,
     message |-> response.message, perf_data |-> response.perf_data]

Raised ==
    [kind |-> "raised", status |-> NoStatus, message |-> TypeError,
     perf_data |-> <<>>]

\* The default argument of all_responses: None, or a Response.
NoDefault == [given |-> FALSE, response |-> Response(NoStatus, None)]

Default(response) == [given |-> TRUE, response |-> response]

\* A collation that hands back the worst response itself, its message
\* replaced.
SortAndCollate_WorstItself(self_responses) ==
    LET sorted == SortDesc(self_responses)
        worst == sorted[1]
        message == Collate(Tail(sorted), worst.status, worst.message)
    IN  [responses |-> sorted,
         result |-> IF message = TypeError THEN Raised
                    ELSE Returned([worst EXCEPT !.message = message])]

\* all_responses past its test for an empty list: sort, then collate.  The
\* sort comes before the loop that may raise.
SortAndCollate(self_responses) ==
    LET sorted == SortDesc(self_responses)
        worst == sorted[1]
        message == Collate(Tail(sorted), worst.status, worst.message)
    IN  [responses |-> sorted,
         result |-> IF message = TypeError THEN Raised
                    ELSE Returned(Response(worst.status, message))]

\* all_responses that forgets its default.
all_responses_NoDefault(self_responses, default) ==
    IF self_responses = <<>>
    THEN [responses |-> self_responses,
          result |-> Returned(Response(OK, None))]
    ELSE SortAndCollate(self_responses)

\* Plugin.all_responses(default): the list it leaves in self.responses and
\* what it returns or raises.  A Response is always true in "if default".
all_responses(self_responses, default) ==
    IF self_responses = <<>>
    THEN [responses |-> self_responses,
          result |-> IF default.given THEN Returned(default.response)
                     ELSE Returned(Response(OK, None))]
    ELSE SortAndCollate(self_responses)

\* Plugin.add_response(response)
add_response(self_responses, response) == Append(self_responses, response)

\* getattr(self.options, name, None) and self.options.<name>.in_range(value):
\* an option not given is None, and a Range object is always true.
Breached(option, value) == option.st = "ok" /\ in_range(option, value)

\* response_for_value that tests the warning range first.
response_for_value_WarningFirst(self_options, value, message) ==
    Response(IF Breached(self_options.warning, value) THEN WARNING
             ELSE IF Breached(self_options.critical, value) THEN CRITICAL
             ELSE OK,
             message)

\* Plugin.response_for_value(value, message)
response_for_value(self_options, value, message) ==
    Response(IF Breached(self_options.critical, value) THEN CRITICAL
             ELSE IF Breached(self_options.warning, value) THEN WARNING
             ELSE OK,
             message)

-----------------------------------------------------------------------------
(* perf_data.py: class PerfData.  The arguments here are strs, ints or     *)
(* None (and, for warn and crit, Range objects).                           *)

\* A Python int where a str may stand: no str starts with this element.
PyInt(n) == <<"int">> \o IntStr(n)

IsInt(value) == Len(value) > 0 /\ value[1] = "int"

\* str(value), of a str or an int
PyStr(value) == IF IsInt(value) THEN Tail(value) ELSE value

\* bool(value), as "value or ..." takes it: None, "" and 0 are false.
Truthy(value) == value # None /\ value # <<>> /\ value # PyInt(0)

\* The characters of the class [-0-9.]
ValueClass == Digits \cup {"-", "."}

\* re.compile(r"[-0-9.]+$").match(s): one or more characters of the class
\* from the start of s, up to "$", which matches at the end of s and also
\* just before a newline that ends s.
MatchesValueFormat(s) ==
    LET n == Len(s)
        upTo == IF n > 0 /\ s[n] = "\n" THEN n - 1 ELSE n
    IN  /\ upTo >= 1
        /\ \A i \in 1..upTo : s[i] \in ValueClass

\* PerfData._is_valid_value(value)
is_valid_value(value) == value = None \/ MatchesValueFormat(PyStr(value))

UpperCase ==
    <<"A", "B", "C", "D", "E", "F", "G", "H", "I", "J", "K", "L", "M",
      "N", "O", "P", "Q", "R", "S", "T", "U", "V", "W", "X", "Y", "Z">>

LowerCase ==
    <<"a", "b", "c", "d", "e", "f", "g", "h", "i", "j", "k", "l", "m",
      "n", "o", "p", "q", "r", "s", "t", "u", "v", "w", "x", "y", "z">>

\* str.lower()
Lower(s) ==
    [i \in 1..Len(s) |->
        IF \E j \in 1..26 : UpperCase[j] = s[i]
        THEN LowerCase[CHOOSE j \in 1..26 : UpperCase[j] = s[i]]
        ELSE s[i]]

\* valids, in the uom setter
valids ==
    {<<>>, <<"s">>, <<"%">>, <<"b">>, <<"k", "b">>, <<"m", "b">>,
     <<"g", "b">>, <<"t", "b">>, <<"c">>}

\* What a setter or the constructor did: the object as it is afterwards and
\* the exception raised ("none": it returned).
Done(self) == [exc |-> "none", self |-> self]

Raise(exc, self) == [exc |-> exc, self |-> self]

\* @value.setter
value_setter(self, value) ==
    IF value = None THEN Raise("ValueError", self)
    ELSE IF ~is_valid_value(value) THEN Raise("ValueError", self)
    ELSE Done([self EXCEPT !.value = value])

\* An argument of the warn and crit setters: None, a str or a Range object.
NoneArg == [t |-> "None", s |-> None, r |-> NoRange]

StrArg(s) == [t |-> "str", s |-> s, r |-> NoRange]

RangeArg(r) == [t |-> "Range", s |-> None, r |-> r]

\* A Range object that the caller made earlier and holds.
Held(r) == [r EXCEPT !.id = 1]

\* A conversion that parses the text of a Range it is given.
AsRange_Reparse(value) ==
    IF value.t = "None" THEN NoRange
    ELSE IF value.t = "Range" THEN Range(Range__str__(value.r))
    ELSE Range(value.s)

\* value = Range(value) unless value is None or a Range: the value to store
\* (NoRange for None), or the RangeValueError of Range(value).
AsRange(value) ==
    IF value.t = "None" THEN NoRange
    ELSE IF value.t = "Range" THEN value.r
    ELSE Range(value.s)

\* self._warn = value, unless Range(value) raised
StoreWarn(self, r) ==
    IF r.st \in RangeErrors THEN Raise("RangeValueError", self)
    ELSE Done([self EXCEPT !.warn = r])

\* self._crit = value, unless Range(value) raised
StoreCrit(self, r) ==
    IF r.st \in RangeErrors THEN Raise("RangeValueError", self)
    ELSE Done([self EXCEPT !.crit = r])

\* @warn.setter
warn_setter(self, value) == StoreWarn(self, AsRange(value))

\* @crit.setter
crit_setter(self, value) == StoreCrit(self, AsRange(value))

\* A minval setter that stores before it validates.
minval_setter_StoreFirst(self, value) ==
    IF ~is_valid_value(value)
    THEN Raise("ValueError", [self EXCEPT !.minval = value])
    ELSE Done([self EXCEPT !.minval = value])

\* @minval.setter
minval_setter(self, value) ==
    IF ~is_valid_value(value) THEN Raise("ValueError", self)
    ELSE Done([self EXCEPT !.minval = value])

\* @maxval.setter
maxval_setter(self, value) ==
    IF ~is_valid_value(value) THEN Raise("ValueError", self)
    ELSE Done([self EXCEPT !.maxval = value])

\* A uom setter that compares without lower().
uom_setter_CaseSensitive(self, value) ==
    IF value # None /\ PyStr(value) \notin valids THEN Raise("ValueError", self)
    ELSE Done([self EXCEPT !.uom = value])

\* @uom.setter
uom_setter(self, value) ==
    IF value # None /\ Lower(PyStr(value)) \notin valids THEN Raise("ValueError", self)
    ELSE Done([self EXCEPT !.uom = value])

\* self.<attr> = value, through the attribute's setter
Assign(self, attr, value) ==
    CASE attr = "value" -> value_setter(self, value)
      [] attr = "uom" -> uom_setter(self, value)
      [] attr = "warn" -> warn_setter(self, value)
      [] attr = "crit" -> crit_setter(self, value)
      [] attr = "minval" -> minval_setter(self, value)
      [] attr = "maxval" -> maxval_setter(self, value)

\* The assignments of __init__ in their order: each is made only if none
\* before it raised.
RECURSIVE Assignments(_, _)
Assignments(before, todo) ==
    IF todo = <<>> \/ before.exc # "none" THEN before
    ELSE Assignments(Assign(before.self, Head(todo)[1], Head(todo)[2]),
                     Tail(todo))

\* The object __init__ starts from: only label is assigned without a setter.
Blank(label) ==
    [label |-> label, value |-> None, uom |-> None, warn |-> NoRange,
     crit |-> NoRange, minval |-> None, maxval |-> None]

\* PerfData.__init__: the assignments in their order, up to the first that
\* raises.
PerfData(label, value, uom, warn, crit, minval, maxval) ==
    Assignments(Done(Blank(label)),
                << <<"value", value>>, <<"uom", uom>>, <<"warn", warn>>,
                   <<"crit", crit>>, <<"minval", minval>>,
                   <<"maxval", maxval>> >>)

\* value.replace("'", "''")
RECURSIVE DoubleQuotes(_)
DoubleQuotes(value) ==
    IF value = <<>> THEN <<>>
    ELSE IF Head(value) = "'" THEN <<"'", "'">> \o DoubleQuotes(Tail(value))
    ELSE <<Head(value)>> \o DoubleQuotes(Tail(value))

\* c in value
Contains(value, c) == \E i \in 1..Len(value) : value[i] = c

\* _quote_if_needed that leaves the quotes inside as they are.
quote_if_needed_NoDoubling(value) ==
    IF Contains(value, "=") \/ Contains(value, " ") \/ Contains(value, "'")
    THEN <<"'">> \o value \o <<"'">>
    ELSE value

\* PerfData._quote_if_needed(value)
quote_if_needed(value) ==
    IF Contains(value, "=") \/ Contains(value, " ") \/ Contains(value, "'")
    THEN <<"'">> \o DoubleQuotes(value) \o <<"'">>
    ELSE value

\* self.uom or "", self.minval or "", self.maxval or "", as "%s" prints it
OrEmpty(value) == IF Truthy(value) THEN PyStr(value) ELSE <<>>

\* self.warn or "", self.crit or "", as "%s" prints it: a Range object is
\* always true.
RangeOrEmpty(r) == IF r.st = "ok" THEN Range__str__(r) ELSE <<>>

\* PerfData.__str__()
PerfData__str__(self) ==
    quote_if_needed(self.label) \o <<"=">> \o PyStr(self.value)
        \o OrEmpty(self.uom) \o <<";">> \o RangeOrEmpty(self.warn)
        \o <<";">> \o RangeOrEmpty(self.crit)
        \o <<";">> \o OrEmpty(self.minval)
        \o <<";">> \o OrEmpty(self.maxval)

-----------------------------------------------------------------------------
(* response.py: set_perf_data and __str__.  perf_data, an OrderedDict, is  *)
(* the sequence of its values in the order of its keys: the PerfData       *)
(* objects, each under its own label.                                      *)

\* label in self.perf_data
HasLabel(perf_data, label) ==
    \E i \in 1..Len(perf_data) : perf_data[i].label = label

\* A mapping whose every assignment puts the key at the end.
SetItem_MoveToEnd(perf_data, label, item) ==
    Append(SelectSeq(perf_data, LAMBDA held : held.label # label), item)

\* self.perf_data[label] = item: a key the OrderedDict holds keeps its
\* place and takes the new value, a new key goes to the end.
SetItem(perf_data, label, item) ==
    IF HasLabel(perf_data, label)
    THEN [i \in 1..Len(perf_data) |->
            IF perf_data[i].label = label THEN item ELSE perf_data[i]]
    ELSE Append(perf_data, item)

\* Response.set_perf_data(label, value, uom, warn, crit, minval, maxval):
\* PerfData(...) is evaluated first, and what it raises leaves the call.
set_perf_data(self, label, value, uom, warn, crit, minval, maxval) ==
    LET made == PerfData(label, value, uom, warn, crit, minval, maxval)
    IN  IF made.exc # "none" THEN Raise(made.exc, self)
        ELSE Done([self EXCEPT
                     !.perf_data = SetItem(self.perf_data, label, made.self)])

\* " ".join(data)
RECURSIVE Join(_)
Join(data) ==
    IF data = <<>> THEN <<>>
    ELSE IF Len(data) = 1 THEN data[1]
    ELSE data[1] \o <<" ">> \o Join(Tail(data))

\* Response.__str__(), of a Response that has a status
Response__str__(self) ==
    LET named == self.status.name \o <<":">>
        informed == IF self.message # None
                    THEN named \o <<" ">> \o PyStr(self.message)
                    ELSE named
    IN  IF Len(self.perf_data) > 0
        THEN informed \o <<"|">>
                \o Join([i \in 1..Len(self.perf_data) |->
                            PerfData__str__(self.perf_data[i])])
        ELSE informed

-----------------------------------------------------------------------------
(* The Range inputs: every str of at most MaxLen characters of Chars, and  *)
(* the strs the documentation and the tests name.                          *)

RECURSIVE StrsUpTo(_)
StrsUpTo(n) ==
    IF n = 0 THEN {<<>>}
    ELSE LET shorter == StrsUpTo(n - 1)
         IN  shorter \cup {Append(s, c) : s \in shorter, c \in Chars}

NamedRangeInputs ==
    { <<"1", "0", ":", "2", "0">>,
      <<"@", "1", "0", ":", "2", "0">>,
      <<"~", ":", "2", "0">>,
      <<"1", "0", ":", "~">>,
      <<"1", "0">>,
      <<"1", "0", ":">>,
      <<"@", "~", ":", "~">>,
      <<"2", "0", ":", "1", "0">>,
      <<"1", "0", ":", "2", "0", ":", "3", "0">>,
      <<":", "1", "0">>,
      <<"b", "a", "d", ":", "1", "0">>,
      <<"1", "0", ":", "b", "a", "d">>,
      <<"1", ".", "5", ":", "2", ".", "2", "5">>,
      <<"+", "1">>,
      <<"i", "n", "f">>,
      <<"-", "i", "n", "f", ":", "i", "n", "f">>,
      <<"n", "a", "n">>,
      <<"n", "a", "n", ":", "1">>,
      <<"1", ":", "n", "a", "n">>,
      <<"@", "1", ":", "n", "a", "n">> }

RangeInputs == StrsUpTo(MaxLen) \cup NamedRangeInputs

\* The numbers in_range is asked about.
InValues ==
    {Fin(n, 0) : n \in (-1..MaxVal) \cup {9, 10, 15, 20, 21}}
        \cup {Fin(5, 1), Fin(15, 1), NegInf, PosInf}

-----------------------------------------------------------------------------
(* The Range life cycle: construct, ask in_range, print, parse the print.  *)

RangeIdle ==
    /\ arg = <<>>
    /\ rng = NoRange
    /\ val = NaN
    /\ inres = FALSE
    /\ text = None
    /\ rng2 = NoRange

StatusIdle ==
    /\ sa = NoStatus
    /\ sb = NoStatus
    /\ cmp = [done |-> FALSE, lt |-> FALSE, eq |-> FALSE, ne |-> FALSE,
              gt |-> FALSE]

\* The uom, warn and crit of an operation that takes none of them.
NoArgs == [uom |-> None, warn |-> NoneArg, crit |-> NoneArg]

PerfIdle ==
    /\ pd = [exists |-> FALSE, self |-> Blank(<<>>)]
    /\ pdlast = [op |-> "none", exc |-> "none"]
    /\ pdtext = None
    /\ pdarg = NoArgs

ResponseIdle ==
    /\ rsp = Response(NoStatus, None)
    /\ resplast = [op |-> "none", exc |-> "none"]
    /\ resptext = None
    /\ setlog = <<>>

ClassifyIdle ==
    /\ options = [warning |-> NoRange, critical |-> NoRange]
    /\ classified = [done |-> FALSE, value |-> NaN,
                     response |-> Response(NoStatus, None)]

QuoteIdle ==
    /\ qlabel = <<>>
    /\ quoted = None

\* One plugin, no call yet.
PluginIdle ==
    /\ responses = <<>>
    /\ added = <<>>
    /\ lastDefault = NoDefault
    /\ outcome = NoResult
    /\ plugins = 1
    /\ addedTo = <<>>
    /\ lastSelf = 1
    /\ calls = <<>>

InitRange ==
    /\ arg \in RangeInputs
    /\ rng = NoRange
    /\ val = NaN
    /\ inres = FALSE
    /\ text = None
    /\ rng2 = NoRange
    /\ StatusIdle
    /\ PluginIdle
    /\ PerfIdle
    /\ QuoteIdle
    /\ ResponseIdle
    /\ ClassifyIdle

\* rng = Range(arg)
Construct ==
    /\ rng.st = "none"
    /\ rng' = Range(arg)
    /\ UNCHANGED <<arg, val, inres, text, rng2, exceptRange>>

\* rng.in_range(v)
InRange ==
    /\ rng.st = "ok"
    /\ \E v \in InValues :
        /\ val' = v
        /\ inres' = in_range(rng, v)
    /\ UNCHANGED <<arg, rng, text, rng2, exceptRange>>

\* text = str(rng)
Str ==
    /\ rng.st = "ok"
    /\ text = None
    /\ text' = Range__str__(rng)
    /\ UNCHANGED <<arg, rng, val, inres, rng2, exceptRange>>

\* rng2 = Range(text)
Reparse ==
    /\ text # None
    /\ rng2.st = "none"
    /\ rng2' = Range(text)
    /\ UNCHANGED <<arg, rng, val, inres, text, exceptRange>>

NextRange == Construct \/ InRange \/ Str \/ Reparse

SpecRange == InitRange /\ [][NextRange]_vars

-----------------------------------------------------------------------------
(* Two Status values and their comparisons.                                *)

StatusNames ==
    {<<"O", "K">>, <<"W", "A", "R", "N">>, <<"F", "I", "N", "E">>}

InitStatus ==
    /\ sa \in {Status(1, n, c) : n \in StatusNames, c \in -1..MaxCode}
    /\ sb \in {Status(2, n, c) : n \in StatusNames, c \in -1..MaxCode}
    /\ cmp = [done |-> FALSE, lt |-> FALSE, eq |-> FALSE, ne |-> FALSE,
              gt |-> FALSE]
    /\ RangeIdle
    /\ PluginIdle
    /\ PerfIdle
    /\ QuoteIdle
    /\ ResponseIdle
    /\ ClassifyIdle

\* sa < sb, sa == sb, sa != sb, sa > sb
Compare ==
    /\ ~cmp.done
    /\ cmp' = [done |-> TRUE,
               lt |-> Status__lt__(sa, sb),
               eq |-> Status__eq__(sa, sb),
               ne |-> Status__ne__(sa, sb),
               gt |-> Status__gt__(sa, sb)]
    /\ UNCHANGED <<sa, sb, exceptStatus>>

NextStatus == Compare

SpecStatus == InitStatus /\ [][NextStatus]_vars

-----------------------------------------------------------------------------
(* A plugin: responses are added and collated, in any order of calls.      *)

\* A second Status("OK", 0), made by the caller: equal to OK, not OK itself.
OK2 == Status(4, <<"O", "K">>, 0)

ResponseStatuses == {OK, WARNING, CRITICAL, OK2}

Messages ==
    {<<"f", "o", "o">>, <<"b", "a", "r">>, <<"b", "a", "z">>, None}

\* Responses that carry performance data.
WithPerfData ==
    { set_perf_data(Response(CRITICAL, <<"f", "o", "o">>), <<"a">>, <<"1">>,
                    None, NoneArg, NoneArg, None, None).self,
      set_perf_data(Response(OK, <<"b", "a", "r">>), <<"b">>, PyInt(2),
                    <<"s">>, NoneArg, NoneArg, None, None).self }

Responses ==
    {Response(st, m) : st \in ResponseStatuses, m \in Messages}
        \cup WithPerfData

Defaults ==
    {NoDefault,
     Default(Response(UNKNOWN, <<"d", "e", "f">>)),
     Default(Response(WARNING, None))}

InitPlugin ==
    /\ PluginIdle
    /\ RangeIdle
    /\ StatusIdle
    /\ PerfIdle
    /\ QuoteIdle
    /\ ResponseIdle
    /\ ClassifyIdle

\* plugin.add_response(response); it returns nothing.
AddResponse ==
    /\ Len(responses) < MaxResponses
    /\ \E response \in Responses :
        /\ responses' = add_response(responses, response)
        /\ added' = Append(added, response)
    /\ lastDefault' = NoDefault
    /\ outcome' = NoResult
    /\ UNCHANGED exceptPlugin

\* outcome = plugin.all_responses(default)
AllResponses ==
    /\ \E default \in Defaults :
        LET out == all_responses(responses, default)
        IN  /\ responses' = out.responses
            /\ lastDefault' = default
            /\ outcome' = out.result
    /\ UNCHANGED added
    /\ UNCHANGED exceptPlugin

NextPlugin == AddResponse \/ AllResponses

SpecPlugin == InitPlugin /\ [][NextPlugin]_vars

-----------------------------------------------------------------------------
(* Several Plugin instances of one process.  responses is an attribute of  *)
(* the class Plugin, and no method binds self.responses: every instance    *)
(* reads and appends to the one list of the class.                         *)

InstanceResponses ==
    { Response(OK, <<"f", "o", "o">>),
      Response(WARNING, <<"b", "a", "z">>),
      Response(CRITICAL, <<"b", "a", "r">>) }

\* Plugin(args): __init__ binds args alone.
NewPlugin ==
    /\ plugins < MaxPlugins
    /\ plugins' = plugins + 1
    /\ lastSelf' = plugins + 1
    /\ lastDefault' = NoDefault
    /\ outcome' = NoResult
    /\ UNCHANGED <<responses, added, addedTo>>
    /\ UNCHANGED exceptInstances

\* self.add_response(response), on any of the instances
AddResponseTo ==
    /\ Len(responses) < MaxResponses
    /\ \E self \in 1..plugins, response \in InstanceResponses :
        /\ responses' = add_response(responses, response)
        /\ added' = Append(added, response)
        /\ addedTo' = Append(addedTo, self)
        /\ lastSelf' = self
    /\ lastDefault' = NoDefault
    /\ outcome' = NoResult
    /\ UNCHANGED plugins
    /\ UNCHANGED exceptInstances

\* outcome = self.all_responses(default), on any of the instances
AllResponsesOf ==
    /\ \E self \in 1..plugins, default \in Defaults :
        LET out == all_responses(responses, default)
        IN  /\ responses' = out.responses
            /\ lastDefault' = default
            /\ outcome' = out.result
            /\ lastSelf' = self
    /\ UNCHANGED <<added, addedTo, plugins>>
    /\ UNCHANGED exceptInstances

NextInstances == NewPlugin \/ AddResponseTo \/ AllResponsesOf

SpecInstances == InitPlugin /\ [][NextInstances]_vars

-----------------------------------------------------------------------------
(* One plugin, its add_response and all_responses calls in any order, each *)
(* call recorded.  all_responses sorts self.responses in place, and the    *)
(* next add_response appends to the sorted list.                           *)

InterleavedResponses ==
    { Response(OK, <<"f", "o", "o">>),
      Response(CRITICAL, <<"b", "a", "r">>),
      Response(OK, <<"b", "a", "z">>),
      Response(OK2, None) }

\* plugin.add_response(response)
AddResponseCall ==
    /\ Len(calls) < MaxCalls
    /\ Len(responses) < MaxResponses
    /\ \E response \in InterleavedResponses :
        /\ responses' = add_response(responses, response)
        /\ added' = Append(added, response)
    /\ lastDefault' = NoDefault
    /\ outcome' = NoResult
    /\ calls' = Append(calls, [op |-> "add_response", default |-> NoDefault,
                               outcome |-> NoResult])
    /\ UNCHANGED exceptHistory

\* outcome = plugin.all_responses(default)
AllResponsesCall ==
    /\ Len(calls) < MaxCalls
    /\ \E default \in Defaults :
        LET out == all_responses(responses, default)
        IN  /\ responses' = out.responses
            /\ lastDefault' = default
            /\ outcome' = out.result
            /\ calls' = Append(calls, [op |-> "all_responses",
                                       default |-> default,
                                       outcome |-> out.result])
    /\ UNCHANGED added
    /\ UNCHANGED exceptHistory

NextInterleaved == AddResponseCall \/ AllResponsesCall

SpecInterleaved == InitPlugin /\ [][NextInterleaved]_vars

-----------------------------------------------------------------------------
(* A PerfData: constructed, then its fields assigned in any order.        *)

\* The strs (and None) tried as value, minval and maxval.
PerfValues ==
    { None,
      <<>>,
      <<"7">>,
      <<"-", "1", ".", "5">>,
      <<"7", "\n">>,
      <<"\n">>,
      <<"7", "\n", "\n">>,
      <<"\n", "7">>,
      <<"x">>,
      <<"7", "x">>,
      <<"x", "7">>,
      <<" ", "7">>,
      <<"1", "e", "5">> }

Uoms == {None, <<"s">>, <<"K", "B">>, <<"x">>}

RangeArgs ==
    { NoneArg,
      StrArg(<<"1", "0", ":", "2", "0">>),
      StrArg(<<"b", "a", "d">>),
      RangeArg(Held(Range(<<"@", "1", ":", "2">>))) }

\* The minval and maxval the constructor is tried with.
CtorBounds == {None, <<"7">>, <<"x">>}

InitPerf ==
    /\ PerfIdle
    /\ RangeIdle
    /\ StatusIdle
    /\ PluginIdle
    /\ QuoteIdle
    /\ ResponseIdle
    /\ ClassifyIdle

\* pd = PerfData(label, value, uom, warn, crit, minval, maxval); when it
\* raises there is no object.
PdConstruct ==
    /\ ~pd.exists
    /\ \E value \in PerfValues, uom \in Uoms, warn \in RangeArgs,
          crit \in RangeArgs, minval \in CtorBounds, maxval \in CtorBounds :
        LET out == PerfData(<<"f", "o", "o">>, value, uom, warn, crit,
                            minval, maxval)
        IN  /\ pd' = IF out.exc = "none"
                     THEN [exists |-> TRUE, self |-> out.self]
                     ELSE pd
            /\ pdlast' = [op |-> "init", exc |-> out.exc]
            /\ pdarg' = [uom |-> uom, warn |-> warn, crit |-> crit]
    /\ pdtext' = None
    /\ UNCHANGED exceptPerf

\* pd.value = value
SetValue ==
    /\ pd.exists
    /\ \E value \in PerfValues :
        LET out == value_setter(pd.self, value)
        IN  /\ pd' = [pd EXCEPT !.self = out.self]
            /\ pdlast' = [op |-> "value", exc |-> out.exc]
            /\ pdarg' = NoArgs
    /\ pdtext' = None
    /\ UNCHANGED exceptPerf

\* pd.uom = value
SetUom ==
    /\ pd.exists
    /\ \E value \in Uoms :
        LET out == uom_setter(pd.self, value)
        IN  /\ pd' = [pd EXCEPT !.self = out.self]
            /\ pdlast' = [op |-> "uom", exc |-> out.exc]
            /\ pdarg' = [NoArgs EXCEPT !.uom = value]
    /\ pdtext' = None
    /\ UNCHANGED exceptPerf

\* pd.warn = value
SetWarn ==
    /\ pd.exists
    /\ \E value \in RangeArgs :
        LET out == warn_setter(pd.self, value)
        IN  /\ pd' = [pd EXCEPT !.self = out.self]
            /\ pdlast' = [op |-> "warn", exc |-> out.exc]
            /\ pdarg' = [NoArgs EXCEPT !.warn = value]
    /\ pdtext' = None
    /\ UNCHANGED exceptPerf

\* pd.crit = value
SetCrit ==
    /\ pd.exists
    /\ \E value \in RangeArgs :
        LET out == crit_setter(pd.self, value)
        IN  /\ pd' = [pd EXCEPT !.self = out.self]
            /\ pdlast' = [op |-> "crit", exc |-> out.exc]
            /\ pdarg' = [NoArgs EXCEPT !.crit = value]
    /\ pdtext' = None
    /\ UNCHANGED exceptPerf

\* pd.minval = value
SetMinval ==
    /\ pd.exists
    /\ \E value \in PerfValues :
        LET out == minval_setter(pd.self, value)
        IN  /\ pd' = [pd EXCEPT !.self = out.self]
            /\ pdlast' = [op |-> "minval", exc |-> out.exc]
            /\ pdarg' = NoArgs
    /\ pdtext' = None
    /\ UNCHANGED exceptPerf

\* pd.maxval = value
SetMaxval ==
    /\ pd.exists
    /\ \E value \in PerfValues :
        LET out == maxval_setter(pd.self, value)
        IN  /\ pd' = [pd EXCEPT !.self = out.self]
            /\ pdlast' = [op |-> "maxval", exc |-> out.exc]
            /\ pdarg' = NoArgs
    /\ pdtext' = None
    /\ UNCHANGED exceptPerf

\* pdtext = str(pd)
PdStr ==
    /\ pd.exists
    /\ pdtext = None
    /\ pdtext' = PerfData__str__(pd.self)
    /\ UNCHANGED <<pd, pdlast, pdarg>>
    /\ UNCHANGED exceptPerf

NextPerf ==
    \/ PdConstruct
    \/ SetValue
    \/ SetUom
    \/ SetWarn
    \/ SetCrit
    \/ SetMinval
    \/ SetMaxval

SpecPerf == InitPerf /\ [][NextPerf]_vars

-----------------------------------------------------------------------------
(* The uom of a PerfData: handed to the constructor, then assigned.        *)

UomChars == {"s", "%", "b", "K", "x"}

RECURSIVE UomsUpTo(_)
UomsUpTo(n) ==
    IF n = 0 THEN {<<>>}
    ELSE LET shorter == UomsUpTo(n - 1)
         IN  shorter \cup {Append(s, c) : s \in shorter, c \in UomChars}

NamedUoms ==
    { None, PyInt(0),
      <<"m", "b">>, <<"M", "B">>, <<"g", "b">>, <<"G", "b">>, <<"t", "b">>,
      <<"T", "B">>, <<"c">>, <<"C">>,
      <<"m", "s">>, <<"k", "b", "s">>, <<"k", "b", " ">>, <<"m">>,
      <<"b", "y", "t", "e", "s">> }

UomInputs == UomsUpTo(MaxUom) \cup NamedUoms

\* pd = PerfData("foo", "7", uom=uom)
UomConstruct ==
    /\ ~pd.exists
    /\ \E uom \in UomInputs :
        LET out == PerfData(<<"f", "o", "o">>, <<"7">>, uom, NoneArg, NoneArg,
                            None, None)
        IN  /\ pd' = IF out.exc = "none"
                     THEN [exists |-> TRUE, self |-> out.self]
                     ELSE pd
            /\ pdlast' = [op |-> "init", exc |-> out.exc]
            /\ pdarg' = [NoArgs EXCEPT !.uom = uom]
    /\ pdtext' = None
    /\ UNCHANGED exceptPerf

\* pd.uom = value
UomAssign ==
    /\ pd.exists
    /\ \E value \in UomInputs :
        LET out == uom_setter(pd.self, value)
        IN  /\ pd' = [pd EXCEPT !.self = out.self]
            /\ pdlast' = [op |-> "uom", exc |-> out.exc]
            /\ pdarg' = [NoArgs EXCEPT !.uom = value]
    /\ pdtext' = None
    /\ UNCHANGED exceptPerf

NextUom == UomConstruct \/ UomAssign

SpecUom == InitPerf /\ [][NextUom]_vars

-----------------------------------------------------------------------------
(* str(PerfData): every PerfData that the constructor accepts from the     *)
(* arguments below, then printed.  The tests hand ints as well as strs.    *)

StrLabels ==
    {<<"f", "o", "o">>, <<"w", "i", "t", "h", "=">>, <<"a", " ", "b">>,
     <<"q", "u", "o", "t", "e", "'">>}

StrValues == {<<"7">>, <<"-", "1", ".", "5">>, PyInt(0), PyInt(20), <<"x">>}

StrUoms == {None, <<>>, <<"b">>, <<"K", "B">>}

StrRanges ==
    {NoneArg, StrArg(<<"1", "0", ":", "2", "0">>),
     RangeArg(Held(Range(<<"@", "~", ":", "1", ".", "5">>)))}

StrBounds == {None, <<"1">>, <<"0">>, PyInt(0), PyInt(5)}

InitPerfStr ==
    /\ \E label \in StrLabels, value \in StrValues, uom \in StrUoms,
          warn \in StrRanges, crit \in StrRanges, minval \in StrBounds,
          maxval \in StrBounds :
        LET out == PerfData(label, value, uom, warn, crit, minval, maxval)
        IN  /\ out.exc = "none"
            /\ pd = [exists |-> TRUE, self |-> out.self]
    /\ pdlast = [op |-> "init", exc |-> "none"]
    /\ pdtext = None
    /\ pdarg = NoArgs
    /\ RangeIdle
    /\ StatusIdle
    /\ PluginIdle
    /\ QuoteIdle
    /\ ResponseIdle
    /\ ClassifyIdle

NextPerfStr == PdStr

SpecPerfStr == InitPerfStr /\ [][NextPerfStr]_vars

-----------------------------------------------------------------------------
(* _quote_if_needed on every label of at most MaxLabel characters.         *)

LabelChars == {"a", "=", " ", "'"}

RECURSIVE LabelsUpTo(_)
LabelsUpTo(n) ==
    IF n = 0 THEN {<<>>}
    ELSE LET shorter == LabelsUpTo(n - 1)
         IN  shorter \cup {Append(s, c) : s \in shorter, c \in LabelChars}

InitQuote ==
    /\ qlabel \in LabelsUpTo(MaxLabel)
    /\ quoted = None
    /\ RangeIdle
    /\ StatusIdle
    /\ PluginIdle
    /\ PerfIdle
    /\ ResponseIdle
    /\ ClassifyIdle

\* quoted = self._quote_if_needed(qlabel)
Quote ==
    /\ quoted = None
    /\ quoted' = quote_if_needed(qlabel)
    /\ UNCHANGED qlabel
    /\ UNCHANGED exceptQuote

NextQuote == Quote

SpecQuote == InitQuote /\ [][NextQuote]_vars

-----------------------------------------------------------------------------
(* A Response: metrics are set, the fields of a metric are assigned, and   *)
(* the response is printed, in any order.                                  *)

ResponseMessages == {None, <<>>, <<"h", "i">>}

MetricLabels == {<<"a">>, <<"b">>}

MetricValues == {<<"1">>, PyInt(2), <<"x">>}

MetricUoms == {None, <<"z", "z">>}

\* The assignments tried on a PerfData of the response: one that the setter
\* accepts, and for every field one that it refuses.
MetricAssignments ==
    { <<"value", <<"1">>>>, <<"value", <<"x">>>>,
      <<"uom", <<"z", "z">>>>,
      <<"warn", StrArg(<<"b", "a", "d">>)>>,
      <<"crit", StrArg(<<"2", ":", "1">>)>>,
      <<"minval", <<"x">>>>,
      <<"maxval", <<"7", "\n", "\n">>>> }

InitResponse ==
    /\ rsp \in {Response(OK, m) : m \in ResponseMessages}
    /\ resplast = [op |-> "none", exc |-> "none"]
    /\ resptext = None
    /\ setlog = <<>>
    /\ RangeIdle
    /\ StatusIdle
    /\ PluginIdle
    /\ PerfIdle
    /\ QuoteIdle
    /\ ClassifyIdle

\* rsp.set_perf_data(label, value, uom=uom)
SetPerfData ==
    /\ Len(setlog) < MaxSets
    /\ \E label \in MetricLabels, value \in MetricValues, uom \in MetricUoms :
        LET out == set_perf_data(rsp, label, value, uom, NoneArg, NoneArg,
                                 None, None)
        IN  /\ rsp' = out.self
            /\ resplast' = [op |-> "set_perf_data", exc |-> out.exc]
            /\ setlog' = IF out.exc = "none"
                         THEN Append(setlog,
                                     CHOOSE item \in
                                        {out.self.perf_data[i] :
                                            i \in 1..Len(out.self.perf_data)} :
                                        item.label = label)
                         ELSE setlog
    /\ resptext' = None
    /\ UNCHANGED exceptResponse

\* rsp.perf_data[label].<attr> = value.  The object is the one the last
\* set_perf_data call for its label put in.
AssignMetric ==
    /\ \E i \in 1..Len(rsp.perf_data), a \in MetricAssignments :
        LET out == Assign(rsp.perf_data[i], a[1], a[2])
            last == CHOOSE n \in 1..Len(setlog) :
                        /\ setlog[n].label = rsp.perf_data[i].label
                        /\ \A later \in (n + 1)..Len(setlog) :
                              setlog[later].label # rsp.perf_data[i].label
        IN  /\ rsp' = [rsp EXCEPT !.perf_data[i] = out.self]
            /\ resplast' = [op |-> a[1], exc |-> out.exc]
            /\ setlog' = [setlog EXCEPT ![last] = out.self]
    /\ resptext' = None
    /\ UNCHANGED exceptResponse

\* resptext = str(rsp)
ResponseStr ==
    /\ resptext = None
    /\ resptext' = Response__str__(rsp)
    /\ UNCHANGED <<rsp, resplast, setlog>>
    /\ UNCHANGED exceptResponse

NextResponse == SetPerfData \/ AssignMetric \/ ResponseStr

SpecResponse == InitResponse /\ [][NextResponse]_vars

-----------------------------------------------------------------------------
(* A plugin with its options parsed, asked for the response for a value.   *)

\* What -w and -c leave in the options: None when the option is not given,
\* else the Range that check_pycinga_range returns.
OptionRanges ==
    {NoRange} \cup
    {Range(s) : s \in { <<"1", "0", ":", "2", "0">>,
                        <<"@", "1", "0", ":", "2", "0">>,
                        <<"~", ":", "1">>,
                        <<"1", ":">>,
                        <<"@", "0", ":", "0">>,
                        <<"1", "5">> }}

InitClassify ==
    /\ options \in [warning : OptionRanges, critical : OptionRanges]
    /\ classified = [done |-> FALSE, value |-> NaN,
                     response |-> Response(NoStatus, None)]
    /\ RangeIdle
    /\ StatusIdle
    /\ PluginIdle
    /\ PerfIdle
    /\ QuoteIdle
    /\ ResponseIdle

\* plugin.response_for_value(value, message)
ResponseForValue ==
    /\ \E value \in InValues, message \in {None, <<"h", "i">>} :
        classified' = [done |-> TRUE, value |-> value,
                       response |->
                           response_for_value(options, value, message)]
    /\ UNCHANGED options
    /\ UNCHANGED exceptClassify

NextClassify == ResponseForValue

SpecClassify == InitClassify /\ [][NextClassify]_vars

-----------------------------------------------------------------------------
(* Range: the properties checked under SpecRange.                          *)

\* in_range has been asked (InValues holds no nan).
Asked == val.k # "nan"

\* C1: in_range has the threshold-breach polarity: an inclusive range
\* answers true iff start <= v <= end, an exclusive one iff v < start or
\* v > end, so that a bound itself is in range iff the range is inclusive.
C1_InRangePolarity ==
    Asked =>
        /\ rng.inclusive =>
              (inres <=> (FloatLe(rng.start, val) /\ FloatLe(val, rng.end)))
        /\ ~rng.inclusive =>
              (inres <=> (FloatLt(val, rng.start) \/ FloatGt(val, rng.end)))
        /\ (val = rng.start \/ val = rng.end) => (inres <=> rng.inclusive)

\* The ":"-free and ":"-split reading of a str, written from the positions of
\* its ":" characters.
Trimmed(s) == Strip(s)

Body(s) ==
    IF Trimmed(s) # <<>> /\ Trimmed(s)[1] = "@"
    THEN SubSeq(Trimmed(s), 2, Len(Trimmed(s)))
    ELSE Trimmed(s)

Colons(s) == {i \in 1..Len(Body(s)) : Body(s)[i] = ":"}

StartPart(s) ==
    IF Colons(s) = {} THEN <<"0">>
    ELSE SubSeq(Body(s), 1, (CHOOSE i \in Colons(s) : TRUE) - 1)

EndPart(s) ==
    IF Colons(s) = {} THEN Body(s)
    ELSE SubSeq(Body(s), (CHOOSE i \in Colons(s) : TRUE) + 1, Len(Body(s)))

StartOk(s) == StartPart(s) = <<"~">> \/ PyFloat(StartPart(s)).ok

EndOk(s) == EndPart(s) \in {<<>>, <<"~">>} \/ PyFloat(EndPart(s)).ok

StartOf(s) ==
    IF StartPart(s) = <<"~">> THEN NegInf ELSE PyFloat(StartPart(s)).val

EndOf(s) ==
    IF EndPart(s) \in {<<>>, <<"~">>} THEN PosInf ELSE PyFloat(EndPart(s)).val

Constructed == rng.st # "none"

\* C5: every Range that construction returns has start <= end, and
\* construction fails with RangeValueError instead of returning a Range when
\* the trimmed str is empty, has more than one ":", has a start or end part
\* that is neither a float nor an allowed marker, or parses to start > end.
C5_StartLeEndOrError ==
    Constructed =>
        /\ rng.st = "ok" => FloatLe(rng.start, rng.end)
        /\ Trimmed(arg) = <<>> => rng.st \in RangeErrors
        /\ Cardinality(Colons(arg)) > 1 => rng.st \in RangeErrors
        /\ (Cardinality(Colons(arg)) <= 1 /\ Trimmed(arg) # <<>>
                /\ (~StartOk(arg) \/ ~EndOk(arg))) => rng.st \in RangeErrors
        /\ (Cardinality(Colons(arg)) <= 1 /\ Trimmed(arg) # <<>>
                /\ StartOk(arg) /\ EndOk(arg)
                /\ FloatGt(StartOf(arg), EndOf(arg))) => rng.st \in RangeErrors

\* C6: parsing maps the str to (inclusive, start, end): a leading "@" sets
\* inclusive; with no ":" the single part is end and start is 0; with one
\* ":" the first part is start and the second is end; "~" as start is
\* -infinity; "~" or "" as end is +infinity; start == end is accepted.
C6_ParseMapping ==
    Constructed =>
        /\ rng.st = "ok" =>
            /\ rng.inclusive <=> (Trimmed(arg)[1] = "@")
            /\ Cardinality(Colons(arg)) <= 1
            /\ Colons(arg) = {} =>
                  /\ rng.start = Fin(0, 0)
                  /\ EndPart(arg) = Body(arg)
            /\ StartPart(arg) = <<"~">> => rng.start = NegInf
            /\ StartPart(arg) # <<"~">> =>
                  /\ PyFloat(StartPart(arg)).ok
                  /\ rng.start = PyFloat(StartPart(arg)).val
            /\ EndPart(arg) \in {<<>>, <<"~">>} => rng.end = PosInf
            /\ EndPart(arg) \notin {<<>>, <<"~">>} =>
                  /\ PyFloat(EndPart(arg)).ok
                  /\ rng.end = PyFloat(EndPart(arg)).val
        /\ (Trimmed(arg) # <<>> /\ Cardinality(Colons(arg)) <= 1
                /\ StartOk(arg) /\ EndOk(arg)
                /\ FloatEq(StartOf(arg), EndOf(arg))) => rng.st = "ok"

\* A Range with equal finite bounds was accepted from a two-part str.
C6_Witness ==
    /\ rng.st = "ok"
    /\ Cardinality(Colons(arg)) = 1
    /\ rng.start = rng.end
    /\ rng.start.k = "fin"
    /\ rng.inclusive

\* The round trip has been made.
Reparsed == rng2.st # "none"

\* C7: for every str that Range accepts, Range(str(Range(s))) is accepted and
\* has the same start, end and inclusive as Range(s).
C7_RoundTrip ==
    Reparsed =>
        /\ rng2.st = "ok"
        /\ rng2.inclusive = rng.inclusive
        /\ rng2.start = rng.start
        /\ rng2.end = rng.end

\* A round trip through a text that differs from the input, with a
\* fractional bound.
C7_Witness ==
    /\ Reparsed
    /\ rng2.st = "ok"
    /\ text # arg
    /\ ~is_integer(rng.end)
    /\ rng.end.k = "fin"

Printed == text # None

CanonicalInputs ==
    { <<"1", "0", ":", "2", "0">>,
      <<"@", "1", "0", ":", "2", "0">>,
      <<"~", ":", "2", "0">>,
      <<"1", "0", ":", "~">>,
      <<"1", "0">>,
      <<"@", "~", ":", "~">> }

\* text without its "@"
TextBody == IF text[1] = "@" THEN Tail(text) ELSE text

TextColons == {i \in 1..Len(TextBody) : TextBody[i] = ":"}

\* what text holds before and after its ":"
TextStart == SubSeq(TextBody, 1, (CHOOSE i \in TextColons : TRUE) - 1)

TextEnd ==
    IF TextColons = {} THEN TextBody
    ELSE SubSeq(TextBody, (CHOOSE i \in TextColons : TRUE) + 1, Len(TextBody))

\* C8: str(Range) is the canonical text: "@" in front iff inclusive; the
\* "start:" part left out iff start equals 0; -infinity as start printed
\* "~:" and +infinity as end printed "~"; integral bounds printed without a
\* decimal point; so str(Range(s)) = s for the canonical inputs.
C8_CanonicalText ==
    Printed =>
        /\ text # <<>>
        /\ (text[1] = "@") <=> rng.inclusive
        /\ Cardinality(TextColons) <= 1
        /\ (TextColons = {}) <=> FloatEq(rng.start, Fin(0, 0))
        /\ rng.start = NegInf => (TextColons # {} /\ TextStart = <<"~">>)
        /\ rng.end = PosInf => TextEnd = <<"~">>
        /\ (is_integer(rng.start) /\ TextColons # {}) =>
              TextStart = IntStr(rng.start.m)
        /\ is_integer(rng.end) => TextEnd = IntStr(rng.end.m)
        /\ \A i \in 1..Len(text) :
              text[i] = "." => (~is_integer(rng.start) \/ ~is_integer(rng.end))
        /\ arg \in CanonicalInputs => text = arg

\* A canonical input with both parts and the "@" was printed back.
C8_Witness ==
    /\ Printed
    /\ arg = <<"@", "1", "0", ":", "2", "0">>
    /\ text = arg

-----------------------------------------------------------------------------
(* Status: the property checked under SpecStatus.                          *)

\* C9: Status comparison is by exit code alone: a < b, a > b, a == b and
\* a != b are the same comparisons of the exit codes, so exactly one of
\* a < b, a == b, a > b holds, and two Status values with one exit code and
\* different names are equal.
C9_CompareByExitCode ==
    cmp.done =>
        /\ cmp.lt <=> (sa.exit_code < sb.exit_code)
        /\ cmp.gt <=> (sa.exit_code > sb.exit_code)
        /\ cmp.eq <=> (sa.exit_code = sb.exit_code)
        /\ cmp.ne <=> (sa.exit_code # sb.exit_code)
        /\ Cardinality({f \in {"lt", "eq", "gt"} : cmp[f]}) = 1
        /\ (sa.exit_code = sb.exit_code /\ sa.name # sb.name) =>
              (cmp.eq /\ ~cmp.ne)

\* Two Status values with one exit code and different names were compared.
C9_Witness ==
    /\ cmp.done
    /\ sa.exit_code = sb.exit_code
    /\ sa.name # sb.name
    /\ cmp.eq

-----------------------------------------------------------------------------
(* Plugin: the properties checked under SpecPlugin.                        *)

\* The last call was all_responses.
Collated == outcome.kind # "none"

ExitCodes(rs) == {rs[i].status.exit_code : i \in 1..Len(rs)}

\* rs ordered by severity, worst first, ties in the order of rs.
RECURSIVE BySeverity(_, _)
BySeverity(rs, codes) ==
    IF codes = {} THEN <<>>
    ELSE LET c == CHOOSE x \in codes : \A y \in codes : y <= x
         IN  SelectSeq(rs, LAMBDA r : r.status.exit_code = c)
                 \o BySeverity(rs, codes \ {c})

\* The message the walk over o builds from entry i on, msg being the message
\* so far; severities are the same exactly when the exit codes are equal.
RECURSIVE Walk(_, _, _)
Walk(o, i, msg) ==
    IF i > Len(o) THEN msg
    ELSE Walk(o, i + 1,
              IF o[i].status.exit_code # o[i - 1].status.exit_code
              THEN msg \o <<" ">> \o o[i].status.name \o <<":", " ">>
                       \o o[i].message
              ELSE msg \o <<",", " ">> \o o[i].message)

GroupedMessage(rs) ==
    LET o == BySeverity(rs, ExitCodes(rs)) IN Walk(o, 2, o[1].message)

AllHaveMessages(rs) == \A i \in 1..Len(rs) : rs[i].message # None

\* C2: for a non-empty collection, all_responses builds the message by
\* walking the responses by severity, worst first and ties in the order they
\* were added: the first message, then " {status name}: {message}" for an
\* entry whose severity differs from the one before it and ", {message}" for
\* one whose severity is the same, the same meaning equal exit codes.
C2_MessageGroupedByExitCode ==
    (Collated /\ added # <<>> /\ AllHaveMessages(added)) =>
        /\ outcome.kind = "returned"
        /\ outcome.message = GroupedMessage(added)

\* C3: for a non-empty collection, the status all_responses returns is the
\* worst among the added responses: its exit code is at least that of every
\* response added and is that of one of them.
C3_WorstStatus ==
    (Collated /\ added # <<>> /\ outcome.kind = "returned") =>
        /\ \A i \in 1..Len(added) :
              outcome.status.exit_code >= added[i].status.exit_code
        /\ \E i \in 1..Len(added) :
              outcome.status.exit_code = added[i].status.exit_code

\* Three responses of three severities were collated, the worst added last.
C3_Witness ==
    /\ Collated
    /\ outcome.kind = "returned"
    /\ Len(added) = 3
    /\ added[1].status = WARNING
    /\ added[2].status = OK
    /\ added[3].status = CRITICAL
    /\ outcome.status = CRITICAL

\* C4: on an empty collection all_responses never raises: it returns the
\* default it was given, unchanged, and without one a Response whose status
\* is OK (exit code 0) and whose message is absent.
C4_EmptyCollection ==
    (Collated /\ responses = <<>>) =>
        /\ outcome.kind = "returned"
        /\ lastDefault.given =>
              /\ Is(outcome.status, lastDefault.response.status)
              /\ outcome.status = lastDefault.response.status
              /\ outcome.message = lastDefault.response.message
        /\ ~lastDefault.given =>
              /\ outcome.status.exit_code = 0
              /\ Is(outcome.status, OK)
              /\ outcome.message = None

\* all_responses was called on the empty collection with a default.
C4_Witness ==
    /\ Collated
    /\ responses = <<>>
    /\ lastDefault.given
    /\ outcome.kind = "returned"
    /\ outcome.status = UNKNOWN
    /\ outcome.message = <<"d", "e", "f">>

-----------------------------------------------------------------------------
(* PerfData: the properties checked under SpecPerf.                        *)

\* s is one or more characters, all of the class [-0-9.]
InValueClass(s) ==
    /\ s # None
    /\ Len(PyStr(s)) >= 1
    /\ \A i \in 1..Len(PyStr(s)) : PyStr(s)[i] \in Digits \cup {"-", "."}

\* C10: in every PerfData that exists, after construction and after any
\* accepted or rejected assignments, value is present and is one or more
\* characters of [-0-9.], and minval and maxval are each absent or made of
\* characters of [-0-9.]; what is refused is refused with ValueError.
C10_ValuesInClass ==
    /\ pd.exists =>
        /\ InValueClass(pd.self.value)
        /\ pd.self.minval = None \/ InValueClass(pd.self.minval)
        /\ pd.self.maxval = None \/ InValueClass(pd.self.maxval)
    /\ (pdlast.op \in {"value", "minval", "maxval"} /\ pdlast.exc # "none") =>
          pdlast.exc = "ValueError"

-----------------------------------------------------------------------------
(* str(PerfData) and label quoting: the properties checked under           *)
(* SpecPerfStr and SpecQuote.                                              *)

\* The label has a character that calls for quotes.
NeedsQuotes(label) ==
    \E i \in 1..Len(label) : label[i] \in {"=", " ", "'"}

\* The first n characters of label with every single quote written twice.
RECURSIVE QuotesTwice(_, _)
QuotesTwice(label, n) ==
    IF n = 0 THEN <<>>
    ELSE QuotesTwice(label, n - 1)
            \o (IF label[n] = "'" THEN <<"'", "'">> ELSE <<label[n]>>)

\* The label as the output shows it.
LabelShown(label) ==
    IF NeedsQuotes(label)
    THEN <<"'">> \o QuotesTwice(label, Len(label)) \o <<"'">>
    ELSE label

\* A value, unit, minimum or maximum as the output shows it: nothing when
\* it is unset, its own text when it is set.
FieldShown(value) == IF value = None THEN <<>> ELSE PyStr(value)

\* A range as the output shows it: nothing when unset, else its Range text.
RangeShown(r) == IF r.st = "none" THEN <<>> ELSE Range__str__(r)

PdPrinted == pdtext # None

\* C11: str(PerfData) is label=value, the unit, and four ";" that delimit
\* warn, crit, min and max in that order; a field is empty iff it is unset
\* and a set field shows its value.
C11_PerfDataText ==
    PdPrinted =>
        pdtext = LabelShown(pd.self.label) \o <<"=">>
                    \o FieldShown(pd.self.value) \o FieldShown(pd.self.uom)
                    \o <<";">> \o RangeShown(pd.self.warn)
                    \o <<";">> \o RangeShown(pd.self.crit)
                    \o <<";">> \o FieldShown(pd.self.minval)
                    \o <<";">> \o FieldShown(pd.self.maxval)

Labelled == quoted # None

\* C13: the label is wrapped in single quotes, every single quote inside
\* written twice, iff it contains "=", a space or a single quote; any other
\* label is emitted unchanged.
C13_LabelQuoting ==
    Labelled =>
        /\ NeedsQuotes(qlabel) =>
              quoted = <<"'">> \o QuotesTwice(qlabel, Len(qlabel)) \o <<"'">>
        /\ ~NeedsQuotes(qlabel) => quoted = qlabel

\* A label with a single quote inside was quoted.
C13_Witness ==
    /\ Labelled
    /\ qlabel = <<"a", "'", "=">>
    /\ quoted = <<"'", "a", "'", "'", "=", "'">>

-----------------------------------------------------------------------------
(* Response: the properties checked under SpecResponse.                    *)

RespPrinted == resptext # None

\* The texts of the first n metrics, a single space between two.
RECURSIVE MetricsShown(_, _)
MetricsShown(perf_data, n) ==
    IF n = 0 THEN <<>>
    ELSE IF n = 1 THEN PerfData__str__(perf_data[1])
    ELSE MetricsShown(perf_data, n - 1) \o <<" ">>
            \o PerfData__str__(perf_data[n])

\* "|" and the metrics, when there is a metric.
MetricsBlock(perf_data) ==
    IF Len(perf_data) = 0 THEN <<>>
    ELSE <<"|">> \o MetricsShown(perf_data, Len(perf_data))

\* C12: str(Response) is the status name and ":", then a space and the
\* message only if the message is present and not empty, then "|" and the
\* metrics, joined by single spaces in insertion order, only if there is a
\* metric; with neither it is the status name and ":" alone.
C12_ResponseText ==
    RespPrinted =>
        resptext = rsp.status.name \o <<":">>
                      \o (IF rsp.message # None /\ rsp.message # <<>>
                          THEN <<" ">> \o rsp.message ELSE <<>>)
                      \o MetricsBlock(rsp.perf_data)

\* The calls of the log that set the label.
CallsFor(label) == {n \in 1..Len(setlog) : setlog[n].label = label}

FirstCall(label) == CHOOSE n \in CallsFor(label) : \A m \in CallsFor(label) : n <= m

LastCall(label) == CHOOSE n \in CallsFor(label) : \A m \in CallsFor(label) : n >= m

\* text ends with tail
EndsWith(txt, tail) ==
    /\ Len(txt) >= Len(tail)
    /\ SubSeq(txt, Len(txt) - Len(tail) + 1, Len(txt)) = tail

\* C17: perf_data is an ordered mapping with unique labels: each label
\* that was set appears once, with the PerfData of the most recent
\* successful call for it, and the labels come, in the mapping and in the
\* text, in the order in which they were first set.
C17_OrderedMapping ==
    LET held == rsp.perf_data
    IN  /\ \A i, j \in 1..Len(held) : held[i].label = held[j].label => i = j
        /\ \A n \in 1..Len(setlog) :
              \E i \in 1..Len(held) : held[i].label = setlog[n].label
        /\ \A i \in 1..Len(held) :
              /\ CallsFor(held[i].label) # {}
              /\ held[i] = setlog[LastCall(held[i].label)]
        /\ \A i, j \in 1..Len(held) :
              i < j => FirstCall(held[i].label) < FirstCall(held[j].label)
        /\ RespPrinted => EndsWith(resptext, MetricsBlock(held))

\* A label was set again after another label was set, and the response
\* was printed.
C17_Witness ==
    /\ Len(setlog) = 3
    /\ setlog[1].label = <<"a">>
    /\ setlog[2].label = <<"b">>
    /\ setlog[3].label = <<"a">>
    /\ setlog[3].value # setlog[1].value
    /\ Len(rsp.perf_data) = 2
    /\ rsp.perf_data[1] = setlog[3]
    /\ RespPrinted

\* C20: a rejected assignment to a field of a PerfData leaves every field
\* of that PerfData as it was, and a rejected set_perf_data leaves the
\* mapping of the response as it was: its labels, their values, their order.
C20_AtomicFailures ==
    [][resplast'.exc # "none" => rsp' = rsp]_vars

\* An assignment to a metric of the response was rejected.
C20_Witness ==
    /\ resplast.op = "minval"
    /\ resplast.exc = "ValueError"
    /\ Len(rsp.perf_data) = 2

-----------------------------------------------------------------------------
(* PerfData.warn, crit and uom: the properties checked under SpecPerf and  *)
(* SpecUom.                                                                *)

\* What an accepted warn or crit argument leaves in the field: nothing for
\* None, the object itself for a Range, the parsed Range for a str.
Stored(given) ==
    IF given.t = "None" THEN NoRange
    ELSE IF given.t = "Range" THEN given.r
    ELSE Range(given.s)

\* The argument is a str that Range rejects.
Rejected(given) == given.t = "str" /\ Range(given.s).st \in RangeErrors

AbsentOrRange(r) == r.st = "none" \/ r.st = "ok"

\* C14: warn and crit are each absent or a Range after any construction or
\* assignment: a Range given is stored as that same object, a str is parsed
\* when it is assigned, and a str that Range rejects makes the construction
\* or the assignment fail with the error of Range, a ValueError.
C14_WarnCritRanges ==
    /\ pd.exists => AbsentOrRange(pd.self.warn) /\ AbsentOrRange(pd.self.crit)
    /\ pdlast.op = "warn" =>
          /\ Rejected(pdarg.warn) <=> pdlast.exc # "none"
          /\ Rejected(pdarg.warn) =>
                pdlast.exc = "RangeValueError" /\ pdlast.exc \in ValueErrors
          /\ pdlast.exc = "none" => pd.self.warn = Stored(pdarg.warn)
    /\ pdlast.op = "crit" =>
          /\ Rejected(pdarg.crit) <=> pdlast.exc # "none"
          /\ Rejected(pdarg.crit) =>
                pdlast.exc = "RangeValueError" /\ pdlast.exc \in ValueErrors
          /\ pdlast.exc = "none" => pd.self.crit = Stored(pdarg.crit)
    /\ pdlast.op = "init" =>
          /\ (Rejected(pdarg.warn) \/ Rejected(pdarg.crit)) =>
                pdlast.exc \in ValueErrors
          /\ pdlast.exc = "RangeValueError" =>
                (Rejected(pdarg.warn) \/ Rejected(pdarg.crit))
          /\ pdlast.exc = "none" =>
                /\ pd.self.warn = Stored(pdarg.warn)
                /\ pd.self.crit = Stored(pdarg.crit)

\* A Range object was assigned to warn and is the object warn holds, while
\* crit holds a Range parsed from a str.
C14_Witness ==
    /\ pdlast.op = "warn"
    /\ pdlast.exc = "none"
    /\ pdarg.warn.t = "Range"
    /\ pd.self.warn.id = 1
    /\ pd.self.crit.st = "ok"
    /\ pd.self.crit.id = 0

\* The names of the units.
UnitNames ==
    {<<>>, <<"s">>, <<"%">>, <<"b">>, <<"k", "b">>, <<"m", "b">>,
     <<"g", "b">>, <<"t", "b">>, <<"c">>}

\* The capital and the small form of the letters of the unit names.
Letters ==
    {<<"S", "s">>, <<"B", "b">>, <<"K", "k">>, <<"M", "m">>, <<"G", "g">>,
     <<"T", "t">>, <<"C", "c">>}

SameLetter(c, d) ==
    c = d \/ \E l \in Letters : {c, d} = {l[1], l[2]}

\* u is absent, or a str that is a unit name when case is ignored.
IsUnit(u) ==
    \/ u = None
    \/ /\ ~IsInt(u)
       /\ \E name \in UnitNames :
            /\ Len(name) = Len(u)
            /\ \A i \in 1..Len(u) : SameLetter(u[i], name[i])

\* C15: uom accepts exactly None and the strs that are, case ignored, one of
\* "", "s", "%", "b", "kb", "mb", "gb", "tb", "c"; any other unit makes the
\* construction or the assignment fail with ValueError.
C15_UomValidation ==
    pdlast.op \in {"init", "uom"} =>
        /\ pdlast.exc = "none" <=> IsUnit(pdarg.uom)
        /\ pdlast.exc # "none" => pdlast.exc = "ValueError"
        /\ pdlast.exc = "none" => pd.self.uom = pdarg.uom

\* A unit in mixed case was assigned and accepted.
C15_Witness ==
    /\ pdlast.op = "uom"
    /\ pdlast.exc = "none"
    /\ pdarg.uom = <<"K", "b">>
    /\ pd.self.uom = <<"K", "b">>

-----------------------------------------------------------------------------
(* response_for_value: the property checked under SpecClassify.            *)

Configured(option) == option.st # "none"

InCritical == Configured(options.critical)
                /\ in_range(options.critical, classified.value)

InWarning == Configured(options.warning)
                /\ in_range(options.warning, classified.value)

\* C16: response_for_value checks the critical range before the warning
\* range: CRITICAL if a critical range is configured and the value is in
\* it, otherwise WARNING if a warning range is configured and the value is
\* in it, otherwise OK; a range that is not configured never triggers.
C16_CriticalBeforeWarning ==
    classified.done =>
        LET status == classified.response.status
        IN  /\ InCritical => Is(status, CRITICAL)
            /\ (~InCritical /\ InWarning) => Is(status, WARNING)
            /\ (~InCritical /\ ~InWarning) => Is(status, OK)
            /\ (~Configured(options.critical) /\ ~Configured(options.warning))
                  => Is(status, OK)
            /\ ~Configured(options.critical) => ~Is(status, CRITICAL)
            /\ ~Configured(options.warning) => ~Is(status, WARNING)

\* A value in both ranges was classified.
C16_Witness ==
    /\ classified.done
    /\ InCritical
    /\ InWarning
    /\ options.critical # options.warning
    /\ Is(classified.response.status, CRITICAL)

-----------------------------------------------------------------------------
(* Plugin: the properties checked under SpecPlugin and SpecInstances.      *)

\* How many times x occurs in the sequence rs.
Occurrences(rs, x) == Cardinality({i \in 1..Len(rs) : rs[i] = x})

\* C18: all_responses aggregates status and message only: the Response it
\* builds from a non-empty collection has an empty perf_data whatever
\* metrics the added responses carry, and the added responses keep their
\* perf_data.
C18_NoMetricsMerged ==
    (Collated /\ added # <<>>) =>
        /\ outcome.kind = "returned" => outcome.perf_data = <<>>
        /\ Len(responses) = Len(added)
        /\ \A i \in 1..Len(added) :
              Occurrences(responses, added[i]) = Occurrences(added, added[i])

\* A response with performance data was the worst of those collated.
C18_Witness ==
    /\ Collated
    /\ outcome.kind = "returned"
    /\ Len(added) = 2
    /\ added[2].perf_data # <<>>
    /\ Is(added[2].status, CRITICAL)
    /\ Is(outcome.status, CRITICAL)
    /\ outcome.perf_data = <<>>

\* The responses that were added to the instance of the last call.
Own == {i \in 1..Len(added) : addedTo[i] = lastSelf}

\* C19: the collection of responses belongs to the Plugin instance: what
\* all_responses of one instance returns includes no response added to
\* another, and an instance that nothing was added to collates the empty
\* collection whatever the others added.
C19_ResponsesPerInstance ==
    (Collated /\ outcome.kind = "returned") =>
        /\ Own = {} =>
              outcome = IF lastDefault.given
                        THEN Returned(lastDefault.response)
                        ELSE Returned(Response(OK, None))
        /\ Own # {} =>
              \E i \in Own : outcome.status = added[i].status

\* C22: all_responses returns a Response, and raises nothing, for every
\* non-empty collection of added responses, those holding responses made
\* with no message included.
C22_NeverRaises ==
    (Collated /\ added # <<>>) => outcome.kind = "returned"

-----------------------------------------------------------------------------
(* Plugin: the property checked under SpecInterleaved.                     *)

\* The status and the message of two results, or that both raised.
SameResult(a, b) ==
    /\ a.kind = b.kind
    /\ a.status = b.status
    /\ a.message = b.message

\* The last two calls were all_responses, with the same default.
TwiceInARow ==
    /\ Len(calls) >= 2
    /\ calls[Len(calls)].op = "all_responses"
    /\ calls[Len(calls) - 1].op = "all_responses"
    /\ calls[Len(calls)].default = calls[Len(calls) - 1].default

\* C21: all_responses neither consumes the collection nor reorders it in a
\* way a caller can see: after add_response and all_responses calls in any
\* order on one plugin, all_responses returns the status and the message
\* that one all_responses over the responses added so far, in the order
\* they were added, returns; two all_responses calls in a row return
\* equal results; and add_response appends only, so the collection holds
\* every added response as often as it was added.
C21_NoConsumeNoReorder ==
    /\ Len(responses) = Len(added)
    /\ \A i \in 1..Len(added) :
          Occurrences(responses, added[i]) = Occurrences(added, added[i])
    /\ Collated =>
          SameResult(outcome, all_responses(added, lastDefault).result)
    /\ TwiceInARow =>
          SameResult(outcome, calls[Len(calls) - 1].outcome)

\* OK(foo), CRIT(bar) added and collated, which sorts the list to bar, foo;
\* then OK(baz) added behind them and collated twice.
C21_Witness ==
    /\ Len(calls) = 6
    /\ calls[1].op = "add_response"
    /\ calls[2].op = "add_response"
    /\ calls[3].op = "all_responses"
    /\ calls[3].outcome.message =
          <<"b", "a", "r", " ", "O", "K", ":", " ", "f", "o", "o">>
    /\ calls[4].op = "add_response"
    /\ TwiceInARow
    /\ added = <<Response(OK, <<"f", "o", "o">>),
                 Response(CRITICAL, <<"b", "a", "r">>),
                 Response(OK, <<"b", "a", "z">>)>>
    /\ responses # added
    /\ Is(outcome.status, CRITICAL)
    /\ outcome.message =
          <<"b", "a", "r", " ", "O", "K", ":", " ", "f", "o", "o", ",", " ",
            "b", "a", "z">>

=============================================================================
